---- MODULE Spec2Model ----
(***************************************************************************)
(* Hiking Navigator (src/app.js): the session state, the file-load path,   *)
(* the GPS callbacks and the geospatial / statistics helpers.              *)
(*                                                                         *)
(* Units.  All modelled points lie on the equator (lat = 0).  There the    *)
(* haversine formula reduces to R * |dLon| exactly, so a longitude is      *)
(* counted in steps of the angle that subtends one decimetre and every     *)
(* distance is an integer number of decimetres.  Elevations are integer    *)
(* metres.                                                                 *)
(***************************************************************************)
EXTENDS Integers, Sequences, FiniteSets, TLC

VARIABLES
    trackData,          \* state.trackData
    watchId,            \* state.watchId (0 = null)
    watchers,           \* watch ids registered with navigator.geolocation
    userPosition,       \* state.userPosition
    userMarker,         \* state.userMarker
    trackLayer,         \* state.trackLayer
    startMarker,        \* state.startMarker
    endMarker,          \* state.endMarker
    elevationChart,     \* state.elevationChart
    trailName,          \* elements.trailName.textContent
    stats,              \* elements.statDistance / statElevation / elevMin / elevMax / elevGain
    gpsStatus,          \* elements.gpsStatus (class and text)
    distanceIndicator,  \* elements.distanceIndicator (hidden, value text, colour)
    loadingVisible,     \* elements.loadingOverlay 'visible' class
    pendingReads,       \* files handed to a FileReader whose onload/onerror has not fired
    geolocation,        \* whether navigator.geolocation exists in this browser
    lastEvent,          \* the handler that ran last, how it ended, and the run of
                        \* fix errors it closes or extends (saturating)
    arg,                \* input of a helper applied on its own
    ret                 \* result of a helper applied on its own

vars == <<trackData, watchId, watchers, userPosition, userMarker, trackLayer,
          startMarker, endMarker, elevationChart, trailName, stats, gpsStatus,
          distanceIndicator, loadingVisible, pendingReads, geolocation,
          lastEvent, arg, ret>>

sessionVars == <<trackData, watchId, watchers, userPosition, userMarker, trackLayer,
                 startMarker, endMarker, elevationChart, trailName, stats, gpsStatus,
                 distanceIndicator, loadingVisible, pendingReads, geolocation,
                 lastEvent>>

(***************************************************************************)
(* Bounds of the model.                                                    *)
(***************************************************************************)
MaxTrackLen == 2    \* points per track in the session model
MaxWatches == 2     \* successful loads (each registers a watch)
MaxPending == 1     \* file reads in flight
MaxErrors == 2      \* the error counter saturates here
MaxStatsLen == 3    \* points per track when updateStats is applied on its own
MaxGeoLen == 2      \* points per track when getDistanceToTrail is applied on its own
MaxIngestLen == 1   \* elements per array when the shape matching is applied on its own
MaxDistance == 2100 \* largest distance (dm) handed to updateDistanceIndicator on its own

(***************************************************************************)
(* Program constants.                                                      *)
(***************************************************************************)
Infinity == 1000000000      \* let minDist = Infinity
OnTrailLimit == 500         \* distance < 50   (metres; 500 dm)
NearTrailLimit == 2000      \* distance < 200  (metres; 2000 dm)
KilometreLimit == 10000     \* distance < 1000 (metres; 10000 dm)

Abs(x) == IF x < 0 THEN -x ELSE x
Min2(a, b) == IF a < b THEN a ELSE b

(***************************************************************************)
(* Values.  An element of a point list is a {lat, lon, ele} object or the  *)
(* JSON value null (obj = FALSE), on which a property read throws.         *)
(***************************************************************************)
Point(lon, ele) == [obj |-> TRUE, lat |-> 0, lon |-> lon, ele |-> ele]
NullItem == [obj |-> FALSE, lat |-> 0, lon |-> 0, ele |-> 0]

SeqsUpTo(S, n) == UNION {[1..k -> S] : k \in 0..n}

HasNull(coords) == \E i \in 1..Len(coords) : ~coords[i].obj

NoPosition == [set |-> FALSE, lat |-> 0, lon |-> 0, accuracy |-> 0]
NoMarker == [set |-> FALSE, onMap |-> FALSE, lat |-> 0, lon |-> 0, ele |-> 0]
NoLayer == [set |-> FALSE, onMap |-> FALSE, latLngs |-> <<>>]
NoChart == [set |-> FALSE, labels |-> <<>>, data |-> <<>>]
NoStats == [set |-> FALSE, statDistance |-> 0, statElevation |-> 0,
            elevMin |-> 0, elevMax |-> 0, elevGain |-> 0]
\* The indicator before the first updateDistanceIndicator: hidden by the page.
HiddenIndicator == [hidden |-> TRUE, value |-> 0, unit |-> "", color |-> ""]


(***************************************************************************)
(* Statistics and geometry helpers.                                        *)
(***************************************************************************)

\* haversineDistance(lat1, lon1, lat2, lon2), in decimetres.  With both
\* latitudes 0: a = sin^2(dLon/2), c = 2*atan2(sqrt(a), sqrt(1-a)) = |dLon|,
\* so R*c is the arc |lon2 - lon1|.
haversineDistance(lat1, lon1, lat2, lon2) ==
    CASE lat1 = 0 /\ lat2 = 0 -> Abs(lon2 - lon1)

\* The first loop of updateStats (and of drawElevationChart): the running
\* total of the consecutive distances up to point i.
RECURSIVE Cumulative(_, _)
Cumulative(coords, i) ==
    IF i <= 1 THEN 0
    ELSE Cumulative(coords, i - 1)
         + haversineDistance(coords[i - 1].lat, coords[i - 1].lon,
                             coords[i].lat, coords[i].lon)

\* The second loop of updateStats, from index i on, with the accumulators
\* acc = [gain, min, max].
RECURSIVE ElevationLoop(_, _, _)
ElevationLoop(coords, i, acc) ==
    IF i > Len(coords) THEN acc
    ELSE LET ele == coords[i].ele
             mn == IF ele < acc.min THEN ele ELSE acc.min
             mx == IF ele > acc.max THEN ele ELSE acc.max
             diff == IF i > 1 THEN coords[i].ele - coords[i - 1].ele ELSE 0
             g == IF i > 1 /\ diff > 0 THEN acc.gain + diff ELSE acc.gain
         IN ElevationLoop(coords, i + 1, [gain |-> g, min |-> mn, max |-> mx])

\* Faulty variant of the elevation loop: every difference is added, so a
\* descent subtracts (net elevation change).
RECURSIVE NetElevationLoop(_, _, _)
NetElevationLoop(coords, i, acc) ==
    IF i > Len(coords) THEN acc
    ELSE LET ele == coords[i].ele
             mn == IF ele < acc.min THEN ele ELSE acc.min
             mx == IF ele > acc.max THEN ele ELSE acc.max
             diff == IF i > 1 THEN coords[i].ele - coords[i - 1].ele ELSE 0
         IN NetElevationLoop(coords, i + 1,
                [gain |-> acc.gain + diff, min |-> mn, max |-> mx])

\* Faulty variant of computeStats, with the net elevation loop.
computeStatsNet(coords) ==
    LET e == NetElevationLoop(coords, 1,
                 [gain |-> 0, min |-> Infinity, max |-> -Infinity])
    IN [totalDistance |-> Cumulative(coords, Len(coords)),
        elevationGain |-> e.gain, minElev |-> e.min, maxElev |-> e.max]

\* The values updateStats has computed when it reaches its display part.
computeStats(coords) ==
    LET e == ElevationLoop(coords, 1,
                 [gain |-> 0, min |-> Infinity, max |-> -Infinity])
    IN [totalDistance |-> Cumulative(coords, Len(coords)),
        elevationGain |-> e.gain, minElev |-> e.min, maxElev |-> e.max]

\* The display part of updateStats.  statDistance is (totalDistance/1000)
\* .toFixed(2), kept in hundredths of a kilometre; Math.round leaves the
\* integer elevations as they are.
updateStats(coords) ==
    LET s == computeStats(coords)
    IN [set |-> TRUE,
        statDistance |-> (s.totalDistance + 50) \div 100,
        statElevation |-> s.elevationGain,
        elevMin |-> s.minElev,
        elevMax |-> s.maxElev,
        elevGain |-> s.elevationGain]

\* drawElevationChart: labels are the cumulative kilometres .toFixed(1),
\* kept in tenths of a kilometre; data are the elevations.
drawElevationChart(coords) ==
    [set |-> TRUE,
     labels |-> [i \in 1..Len(coords) |-> (Cumulative(coords, i) + 500) \div 1000],
     data |-> [i \in 1..Len(coords) |-> coords[i].ele]]

\* drawTrack: the polyline layer group and the two end markers.
drawTrackLayer(coords) ==
    [set |-> TRUE, onMap |-> TRUE,
     latLngs |-> [i \in 1..Len(coords) |-> <<coords[i].lat, coords[i].lon>>]]

drawMarker(c) ==
    [set |-> TRUE, onMap |-> TRUE, lat |-> c.lat, lon |-> c.lon, ele |-> c.ele]

\* state.map.removeLayer(layer) when the layer is set.
removeLayer(layer) == IF layer.set THEN [layer EXCEPT !.onMap = FALSE] ELSE layer

\* The loop of getDistanceToTrail from vertex i on.
RECURSIVE TrailLoop(_, _, _, _, _)
TrailLoop(track, lat, lon, i, minDist) ==
    IF i > Len(track) THEN minDist
    ELSE LET dist == haversineDistance(lat, lon, track[i].lat, track[i].lon)
         IN TrailLoop(track, lat, lon, i + 1,
                      IF dist < minDist THEN dist ELSE minDist)

\* getDistanceToTrail(lat, lon) over state.trackData = track.
getDistanceToTrail(track, lat, lon) == TrailLoop(track, lat, lon, 1, Infinity)

\* Faulty variant of bandColor: the first threshold is inclusive.
bandColorInclusive(distance) ==
    IF distance <= OnTrailLimit THEN "#10b981"
    ELSE IF distance < NearTrailLimit THEN "#00d9ff"
    ELSE "#f59e0b"

\* The colour chosen by updateDistanceIndicator.
bandColor(distance) ==
    IF distance < OnTrailLimit THEN "#10b981"        \* On trail
    ELSE IF distance < NearTrailLimit THEN "#00d9ff" \* Near trail
    ELSE "#f59e0b"                                   \* Off trail

\* updateDistanceIndicator(distance): the indicator element afterwards.
\* Below 1000 m the text is Math.round(distance) + 'm'; from there on it is
\* (distance/1000).toFixed(1) + 'km', kept in tenths of a kilometre.
updateDistanceIndicator(distance) ==
    [hidden |-> FALSE,
     value |-> IF distance < KilometreLimit THEN (distance + 5) \div 10
               ELSE IF distance = Infinity THEN Infinity
               ELSE (distance + 500) \div 1000,
     unit |-> IF distance < KilometreLimit THEN "m" ELSE "km",
     color |-> bandColor(distance)]


(***************************************************************************)
(* Documents.  The text of a file either fails JSON.parse or parses to     *)
(* null, to a top-level array or to an object.  Of an object only          *)
(* data.trackData (td) and coordinates (co) are read:                      *)
(*   td.k = "absent"  data or data.trackData is missing or falsy           *)
(*          "other"   data.trackData is truthy and not an array            *)
(*          "flat"    an array whose first element is not an array; items  *)
(*                    is trackData itself                                  *)
(*          "nested"  an array whose first element is an array; inner is   *)
(*                    the sequence of its inner arrays                     *)
(*   co.k = "absent"  coordinates is missing or falsy                      *)
(*          "other"   coordinates is truthy and has no map method          *)
(*          "list"    an array of [lon, lat] or [lon, lat, ele] arrays     *)
(***************************************************************************)
Absent == [k |-> "absent", items |-> <<>>, inner |-> <<>>]
Other == [k |-> "other", items |-> <<>>, inner |-> <<>>]
Flat(items) == [k |-> "flat", items |-> items, inner |-> <<>>]
Nested(inner) == [k |-> "nested", items |-> <<>>, inner |-> inner]
List(triples) == [k |-> "list", items |-> triples, inner |-> <<>>]

\* Array.isArray(trackData), trackData.length and Array.isArray(trackData[0])
tdIsArray(td) == td.k \in {"flat", "nested"}
tdLength(td) == IF td.k = "nested" THEN Len(td.inner) ELSE Len(td.items)
tdFirstIsArray(td) == td.k = "nested"

Malformed == [parses |-> FALSE, top |-> "none", items |-> <<>>, td |-> Absent, co |-> Absent]
NullDoc == [parses |-> TRUE, top |-> "null", items |-> <<>>, td |-> Absent, co |-> Absent]
ArrayDoc(items) == [parses |-> TRUE, top |-> "array", items |-> items, td |-> Absent, co |-> Absent]
ObjectDoc(td, co) == [parses |-> TRUE, top |-> "object", items |-> <<>>, td |-> td, co |-> co]

ToTriples(coords) == [i \in 1..Len(coords) |-> <<coords[i].lon, coords[i].lat, coords[i].ele>>]

\* c => ({ lon: c[0], lat: c[1], ele: c[2] || 0 })
mapCoordinate(c) ==
    [obj |-> TRUE, lon |-> c[1], lat |-> c[2],
     ele |-> IF Len(c) < 3 \/ c[3] = 0 THEN 0 ELSE c[3]]

\* Faulty variant of resolveCoords: the coordinates key is probed first.
resolveCoordsCoordinatesFirst(json) ==
    IF json.top = "null" THEN [threw |-> TRUE, rule |-> 0, coords |-> <<>>]
    ELSE IF json.co.k = "other" THEN [threw |-> TRUE, rule |-> 3, coords |-> <<>>]
    ELSE IF json.co.k = "list" THEN
        [threw |-> FALSE, rule |-> 3,
         coords |-> [i \in 1..Len(json.co.items) |-> mapCoordinate(json.co.items[i])]]
    ELSE IF json.td.k # "absent" THEN
        [threw |-> FALSE, rule |-> 1,
         coords |-> IF tdIsArray(json.td) /\ tdLength(json.td) > 0
                    THEN IF tdFirstIsArray(json.td) THEN json.td.inner[1] ELSE json.td.items
                    ELSE <<>>]
    ELSE IF json.top = "array" THEN [threw |-> FALSE, rule |-> 2, coords |-> json.items]
    ELSE [threw |-> FALSE, rule |-> 0, coords |-> <<>>]

\* The shape matching of loadTrackData: the branch taken (rule), the
\* resulting coords, and whether a TypeError was thrown on the way
\* (json.data of null, or map on a coordinates value that is no array).
resolveCoords(json) ==
    IF json.top = "null" THEN [threw |-> TRUE, rule |-> 0, coords |-> <<>>]
    ELSE IF json.td.k # "absent" THEN
        \* json.data && json.data.trackData
        [threw |-> FALSE, rule |-> 1,
         coords |-> IF tdIsArray(json.td) /\ tdLength(json.td) > 0
                    THEN IF tdFirstIsArray(json.td) THEN json.td.inner[1] ELSE json.td.items
                    ELSE <<>>]
    ELSE IF json.top = "array" THEN
        [threw |-> FALSE, rule |-> 2, coords |-> json.items]
    ELSE IF json.co.k # "absent" THEN
        IF json.co.k = "other" THEN [threw |-> TRUE, rule |-> 3, coords |-> <<>>]
        ELSE [threw |-> FALSE, rule |-> 3,
              coords |-> [i \in 1..Len(json.co.items) |-> mapCoordinate(json.co.items[i])]]
    ELSE [threw |-> FALSE, rule |-> 0, coords |-> <<>>]

(***************************************************************************)
(* Files.  A file name is a stem and an extension; the stem is a sequence  *)
(* of characters without a dot.                                            *)
(***************************************************************************)
TrailFile == [stem |-> <<"a", "_", "b">>, ext |-> ".json"]
NotesFile == [stem |-> <<"a", "_", "b">>, ext |-> ".txt"]
Files == {TrailFile, NotesFile}

\* filename.replace('.json', '').replace(/_/g, ' ')
trailNameOf(filename) ==
    [i \in 1..Len(filename.stem) |->
        IF filename.stem[i] = "_" THEN " " ELSE filename.stem[i]]

(***************************************************************************)
(* Inputs of the session model.                                            *)
(***************************************************************************)
SessionPoints == {Point(0, 10), Point(2500, 30)}
SessionTracks == SeqsUpTo(SessionPoints, MaxTrackLen)
NullLists == {<<NullItem>>} \cup {<<p, NullItem>> : p \in SessionPoints}
SessionLists == SessionTracks \cup NullLists
SessionDocs ==
    {Malformed, NullDoc, ObjectDoc(Absent, Absent), ObjectDoc(Other, Absent),
     ObjectDoc(Absent, Other)}
    \cup {ArrayDoc(l) : l \in SessionLists}
    \cup {ObjectDoc(Nested(<<l>>), Absent) : l \in SeqsUpTo(SessionPoints, 1)}
    \cup {ObjectDoc(Absent, List(ToTriples(l))) : l \in SeqsUpTo(SessionPoints, 1)}
    \cup {ObjectDoc(Flat(l), List(ToTriples(m))) : l, m \in SeqsUpTo(SessionPoints, 1)}
FixLons == {0, 2000}
Accuracies == {8}
Fixes == {[latitude |-> 0, longitude |-> lon, accuracy |-> a] : lon \in FixLons, a \in Accuracies}
\* error.PERMISSION_DENIED = 1, POSITION_UNAVAILABLE = 2, TIMEOUT = 3; 0 is any other code
ErrorCodes == {0, 3}

Event(kind) == [kind |-> kind, after |-> 0]
Idle == [done |-> FALSE]


(***************************************************************************)
(* The session: initial state and handlers.                                *)
(***************************************************************************)
helperIdle == arg = Idle /\ ret = Idle

SessionInit ==
    /\ trackData = <<>>
    /\ watchId = 0
    /\ watchers = {}
    /\ userPosition = NoPosition
    /\ userMarker = NoMarker
    /\ trackLayer = NoLayer
    /\ startMarker = NoMarker
    /\ endMarker = NoMarker
    /\ elevationChart = NoChart
    /\ trailName = <<>>
    /\ stats = NoStats
    /\ gpsStatus = [status |-> "", text |-> "", accuracy |-> 0]
    /\ distanceIndicator = HiddenIndicator
    /\ loadingVisible = FALSE
    /\ pendingReads = <<>>
    /\ lastEvent = Event("init")

Init ==
    /\ SessionInit
    /\ geolocation \in BOOLEAN
    /\ helperIdle

RemoveAt(q, i) == [j \in 1..(Len(q) - 1) |-> IF j < i THEN q[j] ELSE q[j + 1]]

\* handleFileSelect / handleDrop -> processFile(file), up to reader.readAsText.
processFile(file) ==
    /\ IF file.ext # ".json"
       THEN /\ lastEvent' = Event("rejected")     \* alert('Please select a JSON file')
            /\ UNCHANGED <<loadingVisible, pendingReads>>
       ELSE /\ Len(pendingReads) < MaxPending
            /\ loadingVisible' = TRUE
            /\ pendingReads' = Append(pendingReads, file)
            /\ lastEvent' = Event("reading")
    /\ UNCHANGED <<trackData, watchId, watchers, userPosition, userMarker, trackLayer,
                   startMarker, endMarker, elevationChart, trailName, stats, gpsStatus,
                   distanceIndicator, geolocation, arg, ret>>

\* reader.onerror
readerOnerror(i) ==
    /\ i \in 1..Len(pendingReads)
    /\ pendingReads' = RemoveAt(pendingReads, i)
    /\ loadingVisible' = FALSE
    /\ lastEvent' = Event("readError")            \* alert('Error reading file')
    /\ UNCHANGED <<trackData, watchId, watchers, userPosition, userMarker, trackLayer,
                   startMarker, endMarker, elevationChart, trailName, stats, gpsStatus,
                   distanceIndicator, geolocation, arg, ret>>

\* The catch block of reader.onload: alert and showLoading(false).
caught(kind) ==
    /\ loadingVisible' = FALSE
    /\ lastEvent' = Event(kind)

\* startGPSTracking
startGPSTracking ==
    IF ~geolocation
    THEN /\ gpsStatus' = [status |-> "error", text |-> "GPS not supported", accuracy |-> 0]
         /\ UNCHANGED <<watchId, watchers>>
    ELSE /\ watchId' = watchId + 1                \* the id watchPosition returns
         /\ watchers' = watchers \cup {watchId + 1}
         /\ gpsStatus' = [status |-> "searching", text |-> "Searching...", accuracy |-> 0]

\* The ways loadTrackData ends without a track on the map: the alert and
\* showLoading(false), with the session fields it has not reached.
loadRejected(kind) ==
    /\ caught(kind)
    /\ UNCHANGED <<trackData, trailName, trackLayer, startMarker, endMarker,
                   stats, elevationChart, watchId, watchers, gpsStatus>>

\* loadTrackData from state.trackData = coords up to drawTrack, where
\* coords.map(c => [c.lat, c.lon]) throws a TypeError that reader.onload catches.
loadThrewInDraw(coords, filename) ==
    /\ trackData' = coords
    /\ trailName' = trailNameOf(filename)
    /\ trackLayer' = removeLayer(trackLayer)
    /\ startMarker' = removeLayer(startMarker)
    /\ endMarker' = removeLayer(endMarker)
    /\ caught("threw")
    /\ UNCHANGED <<stats, elevationChart, watchId, watchers, gpsStatus>>

\* loadTrackData from state.trackData = coords to its end.
loadInstalled(coords, filename) ==
    /\ watchId < MaxWatches
    /\ trackData' = coords
    /\ trailName' = trailNameOf(filename)
    /\ trackLayer' = drawTrackLayer(coords)
    /\ startMarker' = drawMarker(coords[1])
    /\ endMarker' = drawMarker(coords[Len(coords)])
    /\ stats' = updateStats(coords)
    /\ elevationChart' = drawElevationChart(coords)
    /\ loadingVisible' = FALSE
    /\ startGPSTracking
    /\ lastEvent' = Event("loaded")

\* Faulty variant of loadTrackData: the coords.length === 0 check is missing,
\* so an empty list is assigned and drawTrack throws on coords[0].
loadTrackDataNoEmptyCheck(json, filename) ==
    LET r == resolveCoords(json)
    IN IF r.threw THEN loadRejected("threw")
       ELSE IF Len(r.coords) = 0 \/ HasNull(r.coords) THEN loadThrewInDraw(r.coords, filename)
       ELSE loadInstalled(r.coords, filename)

\* loadTrackData(json, filename), run inside the try block of reader.onload.
loadTrackData(json, filename) ==
    LET r == resolveCoords(json)
    IN IF r.threw THEN loadRejected("threw")
       ELSE IF Len(r.coords) = 0 THEN loadRejected("notrack")
       ELSE IF HasNull(r.coords) THEN loadThrewInDraw(r.coords, filename)
       ELSE loadInstalled(r.coords, filename)

\* reader.onload with the file's text (doc).
readerOnload(i, doc) ==
    /\ i \in 1..Len(pendingReads)
    /\ pendingReads' = RemoveAt(pendingReads, i)
    /\ IF ~doc.parses
       THEN loadRejected("malformed")   \* JSON.parse throws
       ELSE loadTrackData(doc, pendingReads[i])
    /\ UNCHANGED <<userPosition, userMarker, distanceIndicator, geolocation, arg, ret>>

\* The fix errors delivered in a row up to now.
errorRun == IF lastEvent.kind = "error" THEN lastEvent.after ELSE 0

\* onPositionUpdate(position), called by a registered watch.
onPositionUpdate(position) ==
    /\ watchers # {}
    /\ userPosition' = [set |-> TRUE, lat |-> position.latitude,
                        lon |-> position.longitude, accuracy |-> position.accuracy]
    /\ gpsStatus' = [status |-> "active", text |-> "accuracy", accuracy |-> position.accuracy]
    /\ userMarker' = [set |-> TRUE, onMap |-> TRUE, lat |-> position.latitude,
                      lon |-> position.longitude, ele |-> 0]
    /\ IF Len(trackData) > 0
       THEN IF HasNull(trackData)
            THEN \* coord.lat of null throws inside getDistanceToTrail
                 /\ UNCHANGED distanceIndicator
                 /\ lastEvent' = [kind |-> "fixThrew", after |-> errorRun]
            ELSE /\ distanceIndicator' = updateDistanceIndicator(
                        getDistanceToTrail(trackData, position.latitude, position.longitude))
                 /\ lastEvent' = [kind |-> "fix", after |-> errorRun]
       ELSE /\ UNCHANGED distanceIndicator
            /\ lastEvent' = [kind |-> "fix", after |-> errorRun]
    /\ UNCHANGED <<trackData, watchId, watchers, trackLayer, startMarker, endMarker,
                   elevationChart, trailName, stats, loadingVisible, pendingReads,
                   geolocation, arg, ret>>

errorMessage(code) ==
    CASE code = 1 -> "Permission denied"
      [] code = 2 -> "Position unavailable"
      [] code = 3 -> "Timeout"
      [] OTHER -> "GPS Error"

\* Faulty variant of onPositionError: the stored fix is dropped on an error.
onPositionErrorDropsFix(code) ==
    /\ watchers # {}
    /\ gpsStatus' = [status |-> "error", text |-> errorMessage(code), accuracy |-> 0]
    /\ lastEvent' = [kind |-> "error", after |-> Min2(errorRun + 1, MaxErrors)]
    /\ userPosition' = NoPosition
    /\ UNCHANGED <<trackData, watchId, watchers, userMarker, trackLayer,
                   startMarker, endMarker, elevationChart, trailName, stats,
                   distanceIndicator, loadingVisible, pendingReads, geolocation, arg, ret>>

\* onPositionError(error), called by a registered watch.
onPositionError(code) ==
    /\ watchers # {}
    /\ gpsStatus' = [status |-> "error", text |-> errorMessage(code), accuracy |-> 0]
    /\ lastEvent' = [kind |-> "error", after |-> Min2(errorRun + 1, MaxErrors)]
    /\ UNCHANGED <<trackData, watchId, watchers, userPosition, userMarker, trackLayer,
                   startMarker, endMarker, elevationChart, trailName, stats,
                   distanceIndicator, loadingVisible, pendingReads, geolocation, arg, ret>>

FileSelected == \E file \in Files : processFile(file)
ReadFailed == \E i \in 1..MaxPending : readerOnerror(i)
ReadDone == \E i \in 1..MaxPending, doc \in SessionDocs : readerOnload(i, doc)
FixReceived == \E position \in Fixes : onPositionUpdate(position)
FixFailed == \E code \in ErrorCodes : onPositionError(code)

Next == FileSelected \/ ReadFailed \/ ReadDone \/ FixReceived \/ FixFailed

Spec == Init /\ [][Next]_vars


(***************************************************************************)
(* The helpers applied on their own, to inputs drawn from bounded sets.    *)
(***************************************************************************)

\* updateDistanceIndicator(arg) for every distance up to MaxDistance.
InitBand == SessionInit /\ geolocation = TRUE /\ arg \in 0..MaxDistance /\ ret = Idle
ApplyIndicator ==
    /\ ~ret.done
    /\ distanceIndicator' = updateDistanceIndicator(arg)
    /\ ret' = [done |-> TRUE]
    /\ UNCHANGED <<trackData, watchId, watchers, userPosition, userMarker, trackLayer,
                   startMarker, endMarker, elevationChart, trailName, stats, gpsStatus,
                   loadingVisible, pendingReads, geolocation, lastEvent, arg>>
NextBand == ApplyIndicator
SpecBand == InitBand /\ [][NextBand]_vars

\* updateStats(arg) for every non-empty track of up to MaxStatsLen points.
StatsPoints == {Point(lon, ele) : lon \in {0, 300}, ele \in {90, 100, 120}}
StatsTracks == SeqsUpTo(StatsPoints, MaxStatsLen) \ {<<>>}
InitStats == SessionInit /\ geolocation = TRUE /\ arg \in StatsTracks /\ ret = Idle
ApplyStats ==
    /\ ~ret.done
    /\ stats' = updateStats(arg)
    /\ ret' = [done |-> TRUE, computed |-> computeStats(arg)]
    /\ UNCHANGED <<trackData, watchId, watchers, userPosition, userMarker, trackLayer,
                   startMarker, endMarker, elevationChart, trailName, gpsStatus,
                   distanceIndicator, loadingVisible, pendingReads, geolocation,
                   lastEvent, arg>>
NextStats == ApplyStats
SpecStats == InitStats /\ [][NextStats]_vars

\* getDistanceToTrail(arg.lat, arg.lon) over state.trackData = arg.track,
\* the empty list and lists with a null element included.  A null element
\* makes coord.lat throw; nothing else in the function throws.
GeoItems == {Point(0, 0), Point(700, 0), Point(2500, 0), NullItem}
GeoTracks == SeqsUpTo(GeoItems, MaxGeoLen)
GeoLons == {0, 300, 500, 2000}
InitGeo ==
    /\ SessionInit /\ geolocation = TRUE /\ ret = Idle
    /\ arg \in {[track |-> t, lat |-> 0, lon |-> lon] : t \in GeoTracks, lon \in GeoLons}
ApplyDistance ==
    /\ ~ret.done
    /\ ret' = [done |-> TRUE,
               threw |-> HasNull(arg.track),
               value |-> IF HasNull(arg.track) THEN 0
                         ELSE getDistanceToTrail(arg.track, arg.lat, arg.lon)]
    /\ UNCHANGED <<sessionVars, arg>>
NextGeo == ApplyDistance
SpecGeo == InitGeo /\ [][NextGeo]_vars

\* The shape matching of loadTrackData for every parsed document built from
\* arrays of up to MaxIngestLen elements.
IngestLists == SeqsUpTo({Point(0, 10), Point(2500, 0), NullItem}, MaxIngestLen)
IngestTriples == SeqsUpTo({<<0, 0, 10>>, <<2500, 0>>, <<2500, 0, 0>>}, MaxIngestLen)
IngestTd ==
    {Absent, Other} \cup {Flat(l) : l \in IngestLists}
    \cup {Nested(n) : n \in SeqsUpTo(IngestLists, 2) \ {<<>>}}
IngestCo == {Absent, Other} \cup {List(t) : t \in IngestTriples}
IngestDocs ==
    {NullDoc} \cup {ArrayDoc(l) : l \in IngestLists}
    \cup {ObjectDoc(td, co) : td \in IngestTd, co \in IngestCo}
InitIngest == SessionInit /\ geolocation = TRUE /\ arg \in IngestDocs /\ ret = Idle
ApplyResolve ==
    /\ ~ret.done
    /\ ret' = [done |-> TRUE, resolved |-> resolveCoords(arg)]
    /\ UNCHANGED <<sessionVars, arg>>
NextIngest == ApplyResolve
SpecIngest == InitIngest /\ [][NextIngest]_vars


(***************************************************************************)
(* Claims.                                                                 *)
(***************************************************************************)

\* What the indicator shows for the nearest-vertex distance from the stored
\* fix to the loaded track.
proximityOfStoredFix ==
    updateDistanceIndicator(getDistanceToTrail(trackData, userPosition.lat, userPosition.lon))

\* C1. When a track has just been loaded successfully and a live fix is
\* already stored, the distance indicator shows the nearest-vertex distance
\* from that fix to the newly loaded track, without a further fix event.
C1_ReloadRecomputesProximity ==
    (lastEvent.kind = "loaded" /\ userPosition.set)
        => distanceIndicator = proximityOfStoredFix

\* C2. After any sequence of track loads at most one position watch is
\* registered with the geolocation service.
C2_OneActiveWatch == Cardinality(watchers) <= 1

\* C3. A load attempt that fails (read error, text that does not parse, an
\* exception while loading, no point list found) leaves the loaded track,
\* the trail name, the drawn track and its markers, the statistics and the
\* chart exactly as they were.
C3_FailedLoadLeavesSession ==
    [][lastEvent'.kind \in {"readError", "malformed", "threw", "notrack"}
        => /\ trackData' = trackData
           /\ trailName' = trailName
           /\ trackLayer' = trackLayer
           /\ startMarker' = startMarker
           /\ endMarker' = endMarker
           /\ stats' = stats
           /\ elevationChart' = elevationChart]_vars

\* C4. For every parsed document the point list is resolved by the first
\* matching shape in the order data.trackData, bare array, coordinates:
\* when data.trackData is present rule 1 decides alone (the first inner
\* array of an array of arrays, else trackData itself, and no point list when
\* it is not an array), whatever coordinates holds; otherwise a top-level
\* array is the list itself; otherwise each coordinates entry [lon, lat, ele?]
\* becomes {lon, lat, ele or 0}.
C4_ShapePriority ==
    ret.done =>
        LET json == arg
            r == ret.resolved
            hasTrackData == json.top = "object" /\ json.td.k # "absent"
            fromTrackData == CASE json.td.k = "nested" -> json.td.inner[1]
                               [] json.td.k = "flat" -> json.td.items
                               [] OTHER -> <<>>
            triple(i) == json.co.items[i]
        IN /\ hasTrackData => (r.rule = 1 /\ ~r.threw /\ r.coords = fromTrackData)
           /\ (~hasTrackData /\ json.top = "array")
                => (r.rule = 2 /\ ~r.threw /\ r.coords = json.items)
           /\ (~hasTrackData /\ json.top = "object" /\ json.co.k = "list")
                => /\ r.rule = 3 /\ ~r.threw
                   /\ Len(r.coords) = Len(json.co.items)
                   /\ \A i \in 1..Len(json.co.items) :
                        /\ r.coords[i].lon = triple(i)[1]
                        /\ r.coords[i].lat = triple(i)[2]
                        /\ r.coords[i].ele = IF Len(triple(i)) = 3 THEN triple(i)[3] ELSE 0

\* C4 witness: a document with a non-empty nested data.trackData and a
\* non-empty coordinates list has been resolved by rule 1.
C4_Witness ==
    /\ ret.done
    /\ arg.td.k = "nested" /\ Len(arg.td.inner[1]) > 0
    /\ arg.co.k = "list" /\ Len(arg.co.items) > 0
    /\ ret.resolved.rule = 1
    /\ ret.resolved.coords = arg.td.inner[1]

\* C5. For every distance d the colour set by updateDistanceIndicator is the
\* ON_TRAIL colour exactly when d < 50 m, the NEAR_TRAIL colour exactly when
\* 50 m <= d < 200 m and the OFF_TRAIL colour exactly when d >= 200 m
\* (d in decimetres: 500 and 2000).
C5_Bands ==
    ret.done =>
        LET c == distanceIndicator.color
        IN /\ ~distanceIndicator.hidden
           /\ c \in {"#10b981", "#00d9ff", "#f59e0b"}
           /\ (c = "#10b981") <=> (arg < 500)
           /\ (c = "#00d9ff") <=> (500 <= arg /\ arg < 2000)
           /\ (c = "#f59e0b") <=> (arg >= 2000)

\* C5 witness: the distance 50.0 m has been shown, in the NEAR_TRAIL colour.
C5_Witness == ret.done /\ arg = 500 /\ distanceIndicator.color = "#00d9ff"

\* C6. When a fix error arrives after a proximity result is on display, the
\* displayed result is marked stale: the first error of a run changes the
\* indicator the presentation layer renders.
C6_ErrorFlagsResultStale ==
    [][(lastEvent'.kind = "error" /\ lastEvent.kind # "error" /\ ~distanceIndicator.hidden)
        => distanceIndicator' # distanceIndicator]_vars

\* C7. A fix error changes the GPS status and nothing else of the session
\* (stored fix, user marker, loaded track, drawn track, statistics, chart,
\* proximity result, watches); it puts the status at 'error', never back at
\* no-fix; a stored fix is never dropped by any event; and a successful fix
\* puts the status at 'active' whatever run of errors came before.
C7_ErrorChangesOnlyStatus ==
    [][/\ lastEvent'.kind = "error"
            => /\ gpsStatus'.status = "error"
               /\ UNCHANGED <<trackData, watchId, watchers, userPosition, userMarker,
                              trackLayer, startMarker, endMarker, elevationChart,
                              trailName, stats, distanceIndicator, loadingVisible,
                              pendingReads, geolocation>>
       /\ userPosition.set => userPosition'.set
       /\ lastEvent'.kind \in {"fix", "fixThrew"}
            => (gpsStatus'.status = "active" /\ userPosition'.set)]_vars

\* C7 witness: a successful fix has arrived after a run of MaxErrors (or more)
\* errors that followed an earlier fix, and the status is 'active'.
C7_Witness ==
    /\ lastEvent.kind = "fix" /\ lastEvent.after >= 2
    /\ gpsStatus.status = "active"
    /\ userPosition.set /\ ~distanceIndicator.hidden

RECURSIVE AscentFrom(_, _)
AscentFrom(coords, i) ==
    IF i >= Len(coords) THEN 0
    ELSE (IF coords[i + 1].ele > coords[i].ele THEN coords[i + 1].ele - coords[i].ele ELSE 0)
         + AscentFrom(coords, i + 1)

\* C9. For every non-empty track updateStats computes the gain as the sum of
\* the strictly positive consecutive elevation differences, min and max as
\* the least and greatest elevation of all points, and displays them; for a
\* single-point track the total distance and the gain are 0 and min = max =
\* that point's elevation.
C9_Stats ==
    ret.done =>
        LET c == ret.computed
            eles == {arg[i].ele : i \in 1..Len(arg)}
        IN /\ c.elevationGain = AscentFrom(arg, 1)
           /\ c.minElev \in eles /\ \A e \in eles : c.minElev <= e
           /\ c.maxElev \in eles /\ \A e \in eles : c.maxElev >= e
           /\ stats.set /\ stats.elevGain = c.elevationGain
           /\ stats.statElevation = c.elevationGain
           /\ stats.elevMin = c.minElev /\ stats.elevMax = c.maxElev
           /\ Len(arg) = 1 => /\ c.totalDistance = 0 /\ stats.statDistance = 0
                              /\ c.elevationGain = 0
                              /\ c.minElev = arg[1].ele /\ c.maxElev = arg[1].ele

\* C9 witness: the statistics of a track with elevations 100, 90, 120 have
\* been computed, with gain 30.
C9_Witness ==
    /\ ret.done /\ Len(arg) = 3
    /\ arg[1].ele = 100 /\ arg[2].ele = 90 /\ arg[3].ele = 120
    /\ ret.computed.elevationGain = 30
    /\ ret.computed.minElev = 90 /\ ret.computed.maxElev = 120

\* C10. getDistanceToTrail returns the least great-circle distance from the
\* point to a vertex of the track, and on an empty point list it fails
\* instead of returning a distance value.
C10_NearestVertexOrFailure ==
    (ret.done /\ ~HasNull(arg.track)) =>
        LET dists == {haversineDistance(arg.lat, arg.lon, arg.track[i].lat, arg.track[i].lon) :
                        i \in 1..Len(arg.track)}
        IN IF Len(arg.track) = 0 THEN ret.threw
           ELSE /\ ~ret.threw
                /\ ret.value \in dists
                /\ \A d \in dists : ret.value <= d

====
